---- MODULE Spec2Model ----
(***************************************************************************)
(* Countdown-timer server (src/server.py): one TimerState shared by the    *)
(* HTTP control handlers, the per-connection websocket handlers and the    *)
(* broadcast_time task, persisted to timer_state.json.                     *)
(*                                                                         *)
(* Time is counted in units of 1/Res second, so that int(elapsed) (the     *)
(* truncation of a float number of seconds) is a real conversion.          *)
(* Every action is one synchronous run of a coroutine between two awaits.  *)
(***************************************************************************)
EXTENDS Integers, FiniteSets

\* ---- bounds of the model
Res == 2
MaxTime == 2
MaxSec == 2
MaxDelta == 2
NConns == 2
MaxChurn == 1

Conns == 1..NConns
Time == 0..MaxTime
Deltas == (0 - MaxDelta)..MaxDelta
Values == (0 - 1)..MaxSec
NoConn == 0

VARIABLES
    phase,          \* "import" | "loaded" | "serving" | "teardown" | "stopped"
    clock,          \* what time.time() returns, in 1/Res seconds
    disk,           \* content of STATE_FILE
    seconds,        \* timer_state.seconds
    running,        \* timer_state.running
    last_update,    \* timer_state.last_update
    clients,        \* timer_state.clients
    pc,             \* where broadcast_time is suspended
    cancel,         \* task.cancel(): "none" | "pending" | "swallowed" | "raised"
    data,           \* broadcast_time: data
    disconnected,   \* broadcast_time: disconnected
    cur,            \* broadcast_time: ws of the send in flight
    it_used,        \* set iterator: size of clients when the for loop began
    todo,           \* set iterator: entries it has still to yield
    got,            \* history: connections whose send of this pass succeeded
    stayed,         \* history: connections registered since the pass began
    churn,          \* history: registry changes since the pass began
    ticked,         \* history: the last iteration found the timer running
    beat,           \* history: parity of the number of iterations begun
    wspc,           \* per connection: where websocket_endpoint is suspended
    req,            \* the control request served by the latest step
    resp,           \* the response to it
    last_save,      \* history: how this process's latest save_state() ended
    sent,           \* history: the payloads delivered in this pass
    cd_n,           \* countdown run: the value of the latest /set, -1 before it
    cd_k,           \* countdown run: iterations begun since /start, -1 before it,
                    \* -2 once they are no longer one second apart
    cd_wake,        \* countdown run: when the sleep the task is in ends
    shadow_seconds, \* reference run: seconds of the run without the calls
    shadow_last     \* reference run: last_update of the run without the calls

timer == <<seconds, running, last_update>>
sched == <<pc, data, disconnected, cur, it_used, todo, got>>
hist == <<stayed, churn>>
marks == <<ticked, beat>>
scen == <<cd_n, cd_k, cd_wake, shadow_seconds, shadow_last>>
vars == <<phase, clock, disk, seconds, running, last_update, clients, pc, cancel,
          data, disconnected, cur, it_used, todo, got, stayed, churn, ticked, beat,
          wspc, req, resp, last_save, sent, cd_n, cd_k, cd_wake,
          shadow_seconds, shadow_last>>

\* ---- helpers
Max(a, b) == IF a >= b THEN a ELSE b

\* int(x) of a float x = d/Res seconds: truncation toward zero
IntTrunc(d) == IF d >= 0 THEN d \div Res ELSE 0 - ((0 - d) \div Res)

\* ---- the state file
Fields == {"seconds", "running", "last_update"}

File(k, keys, s, r, t) ==
    [kind |-> k, keys |-> keys, seconds |-> s, running |-> r, last_update |-> t]

NoFile == File("missing", {}, 0, FALSE, 0)
Garbage == File("garbage", {}, 0, FALSE, 0)

WellFormedFiles ==
    {File("json", Fields, s, r, t) : s \in 0..MaxSec, r \in BOOLEAN, t \in Time}

\* a JSON object lacking at least one of the three fields
LackingFiles ==
    {File("json", keys, MaxSec, TRUE, 0) : keys \in (SUBSET Fields) \ {Fields}}

InitFiles == {NoFile, Garbage} \cup LackingFiles \cup WellFormedFiles

\* ---- TimerState.__init__
TimerState(now) == [seconds |-> 0, running |-> FALSE, last_update |-> now]

\* load_state with data.get('running') in place of data['running']
load_state_lenient(file, now) ==
    IF file.kind = "missing" THEN TimerState(now)
    ELSE IF file.kind = "garbage" THEN TimerState(now)
    ELSE IF "seconds" \notin file.keys THEN TimerState(now)
    ELSE IF "last_update" \notin file.keys THEN TimerState(now)
    ELSE IF "running" \in file.keys /\ file.running
         THEN LET elapsed == Max(0, now - file.last_update)
                  left == Max(0, file.seconds - IntTrunc(elapsed))
              IN  [seconds |-> left, running |-> left > 0, last_update |-> now]
         ELSE [seconds |-> file.seconds, running |-> FALSE, last_update |-> now]

\* load_state restoring the saved running flag as it is
load_state_keeps_running(file, now) ==
    IF file.kind = "missing" THEN TimerState(now)
    ELSE IF file.kind = "garbage" THEN TimerState(now)
    ELSE IF "seconds" \notin file.keys THEN TimerState(now)
    ELSE IF "last_update" \notin file.keys THEN TimerState(now)
    ELSE IF "running" \notin file.keys THEN TimerState(now)
    ELSE IF file.running
         THEN LET elapsed == Max(0, now - file.last_update)
                  left == Max(0, file.seconds - IntTrunc(elapsed))
              IN  [seconds |-> left, running |-> TRUE, last_update |-> now]
         ELSE [seconds |-> file.seconds, running |-> FALSE, last_update |-> now]

\* ---- load_state: the state it leaves in timer_state, reading `file` at `now`
load_state(file, now) ==
    IF file.kind = "missing" THEN TimerState(now)
    ELSE IF file.kind = "garbage" THEN TimerState(now)
    ELSE IF "seconds" \notin file.keys THEN TimerState(now)
    ELSE IF "last_update" \notin file.keys THEN TimerState(now)
    ELSE IF "running" \notin file.keys THEN TimerState(now)
    ELSE IF file.running
         THEN LET elapsed == Max(0, now - file.last_update)
                  left == Max(0, file.seconds - IntTrunc(elapsed))
              IN  [seconds |-> left, running |-> left > 0, last_update |-> now]
         ELSE [seconds |-> file.seconds, running |-> FALSE, last_update |-> now]

\* ---- save_state: the file it leaves. The write can fail before the file is
\* opened (the old content stays) or after open(..., 'w') truncated it.
SaveOutcomes == {"ok", "open_fails", "write_fails"}

Snapshot(s, r, l) == File("json", Fields, s, r, l)

save_state(s, r, l, outcome) ==
    IF outcome = "ok" THEN Snapshot(s, r, l)
    ELSE IF outcome = "open_fails" THEN disk
    ELSE Garbage

\* ---- the tick of broadcast_time on a running timer
\* elapsed counted in clock units instead of seconds
tick_elapsed_unscaled(now, last) == (now - last) * Res

tick_elapsed(now, last) == now - last

\* tick with `seconds < 0` in place of `seconds <= 0`
tick_late_stop(s, l, now) ==
    LET elapsed == tick_elapsed(now, l)
        left == Max(0, s - IntTrunc(elapsed))
    IN  [seconds |-> left, running |-> ~(left < 0), last_update |-> now]

tick(s, l, now) ==
    LET elapsed == tick_elapsed(now, l)
        left == Max(0, s - IntTrunc(elapsed))
    IN  [seconds |-> left, running |-> ~(left <= 0), last_update |-> now]

\* ---- the arithmetic of /adjust and /set
\* /adjust without the max(0, ...)
adjust_seconds_unfloored(s, delta) == s + delta

\* adjust that assigns the delta
adjust_seconds_assigns(s, delta) == Max(0, delta)

adjust_seconds(s, delta) == Max(0, s + delta)
\* set without the floor
set_seconds_unfloored(value) == value

set_seconds(value) == Max(0, value)

\* ---- a control request: its path and its query parameter
\* what a query parameter declared `name: int = Query(...)` can arrive as
IntParam(v) == [kind |-> "int", val |-> v]
Missing == [kind |-> "missing", val |-> 0]
NotInt == [kind |-> "text", val |-> 0]
DeltaParams == {Missing, NotInt} \cup {IntParam(d) : d \in Deltas}
ValueParams == {Missing, NotInt} \cup {IntParam(v) : v \in Values}

NoParam == [kind |-> "none", val |-> 0]
Request(path, p) == [path |-> path, kind |-> p.kind, val |-> p.val]
NoReq == Request("", NoParam)

\* ---- the response of a control request: {"status": ..., "seconds": ...}
Response(status, s) == [status |-> status, seconds |-> s]
NoResp == Response("none", 0)
ClientError == Response("client_error", 0)

\* a step that serves no control request
NoCall == req' = NoReq /\ resp' = NoResp /\ UNCHANGED scen

\* ---- module import: timer_state = TimerState(), then load_state()
Init ==
    /\ phase = "import"
    /\ clock = 0
    /\ disk \in InitFiles
    /\ seconds = 0
    /\ running = FALSE
    /\ last_update = 0
    /\ clients = {}
    /\ pc = "none"
    /\ cancel = "none"
    /\ data = [seconds |-> 0, running |-> FALSE]
    /\ disconnected = {}
    /\ cur = NoConn
    /\ it_used = 0
    /\ todo = {}
    /\ got = {}
    /\ stayed = {}
    /\ churn = 0
    /\ ticked = FALSE
    /\ beat = 0
    /\ wspc = [c \in Conns |-> "none"]
    /\ req = NoReq
    /\ resp = NoResp
    /\ last_save = "none"
    /\ sent = {}
    /\ cd_n = 0 - 1
    /\ cd_k = 0 - 1
    /\ cd_wake = 0 - 1
    /\ shadow_seconds = 0
    /\ shadow_last = 0 - 1

LoadState ==
    /\ phase = "import"
    /\ LET st == load_state(disk, clock)
       IN  /\ seconds' = st.seconds
           /\ running' = st.running
           /\ last_update' = st.last_update
    /\ phase' = "loaded"
    /\ NoCall
    /\ UNCHANGED <<marks, last_save, sent, clock, disk, clients, cancel, sched, hist, wspc>>

\* ---- lifespan: asyncio.create_task(broadcast_time())
LifespanStartup ==
    /\ phase = "loaded"
    /\ phase' = "serving"
    /\ pc' = "start"
    /\ NoCall
    /\ UNCHANGED <<marks, last_save, sent, clock, disk, timer, clients, cancel, data, disconnected, cur,
                   it_used, todo, got, hist, wspc>>

\* requests are served once the event loop has run the task's first slice
Serving == phase = "serving" /\ pc # "start"

\* ---- the clock
Advance ==
    /\ clock < MaxTime
    /\ clock' = clock + 1
    /\ NoCall
    /\ UNCHANGED <<marks, last_save, sent, phase, disk, timer, clients, cancel, sched, hist, wspc>>

\* a backward jump of the wall clock; the guard keeps seconds within MaxSec
ClockJumpBack ==
    /\ \E t \in Time :
        /\ t < clock
        /\ running => seconds - IntTrunc(t - last_update) <= MaxSec
        /\ clock' = t
    /\ NoCall
    /\ UNCHANGED <<marks, last_save, sent, phase, disk, timer, clients, cancel, sched, hist, wspc>>

\* ---- control handlers
\* the declaration accepts every integer and nothing else
accepted(p) == p.kind = "int"

\* the request is answered before the handler is called
rejected ==
    /\ resp' = ClientError
    /\ UNCHANGED <<timer, disk, last_save>>

\* a handler's call of save_state()
do_save(s, r, l) ==
    \E o \in SaveOutcomes :
        /\ disk' = save_state(s, r, l, o)
        /\ last_save' = IF o = "ok" THEN "ok" ELSE "failed"

\* a reset that leaves the running flag as it is
reset_timer_keeps_running ==
    /\ Serving
    /\ seconds' = 0
    /\ last_update' = clock
    /\ do_save(0, running, clock)
    /\ req' = Request("/reset", NoParam)
    /\ resp' = Response("reset", seconds')
    /\ UNCHANGED <<marks, sent, phase, clock, running, clients, cancel, sched, hist,
                   wspc, scen>>

reset_timer ==
    /\ Serving
    /\ running' = FALSE
    /\ seconds' = 0
    /\ last_update' = clock
    /\ do_save(0, FALSE, clock)
    /\ req' = Request("/reset", NoParam)
    /\ resp' = Response("reset", seconds')
    /\ UNCHANGED <<marks, sent, phase, clock, clients, cancel, sched, hist, wspc, scen>>

\* a start that stamps and saves whether or not the timer was running
start_call_always_stamps ==
    /\ Serving
    /\ running' = TRUE
    /\ last_update' = clock
    /\ do_save(seconds, TRUE, clock)
    /\ UNCHANGED <<marks, sent, phase, clock, seconds, clients, cancel, sched, hist, wspc>>
    /\ req' = Request("/start", NoParam)
    /\ resp' = Response("started", seconds')

start_call ==
    /\ Serving
    /\ IF ~running
       THEN /\ running' = TRUE
            /\ last_update' = clock
            /\ do_save(seconds, TRUE, clock)
       ELSE UNCHANGED <<running, last_update, disk, last_save>>
    /\ UNCHANGED <<marks, sent, phase, clock, seconds, clients, cancel, sched, hist, wspc>>
    /\ req' = Request("/start", NoParam)
    /\ resp' = Response("started", seconds')

start_timer == start_call /\ UNCHANGED scen

\* a pause that does not save
pause_timer_unsaved ==
    /\ Serving
    /\ IF running
       THEN /\ running' = FALSE
            /\ last_update' = clock
       ELSE UNCHANGED <<running, last_update>>
    /\ UNCHANGED <<marks, sent, phase, clock, seconds, disk, last_save, clients, cancel,
                   sched, hist, wspc, scen>>
    /\ req' = Request("/pause", NoParam)
    /\ resp' = Response("paused", seconds')

pause_timer ==
    /\ Serving
    /\ IF running
       THEN /\ running' = FALSE
            /\ last_update' = clock
            /\ do_save(seconds, FALSE, clock)
       ELSE UNCHANGED <<running, last_update, disk, last_save>>
    /\ UNCHANGED <<marks, sent, phase, clock, seconds, clients, cancel, sched, hist, wspc,
                   scen>>
    /\ req' = Request("/pause", NoParam)
    /\ resp' = Response("paused", seconds')

\* the guard keeps seconds within MaxSec
adjust_call(p) ==
    /\ Serving
    /\ IF accepted(p)
       THEN /\ adjust_seconds(seconds, p.val) <= MaxSec
            /\ seconds' = adjust_seconds(seconds, p.val)
            /\ last_update' = clock
            /\ do_save(adjust_seconds(seconds, p.val), running, clock)
            /\ resp' = Response("adjusted", seconds')
       ELSE rejected
    /\ req' = Request("/adjust", p)
    /\ UNCHANGED <<marks, sent, phase, clock, running, clients, cancel, sched, hist, wspc>>

adjust_timer == (\E p \in DeltaParams : adjust_call(p)) /\ UNCHANGED scen

set_call(p) ==
    /\ Serving
    /\ IF accepted(p)
       THEN /\ seconds' = set_seconds(p.val)
            /\ last_update' = clock
            /\ do_save(set_seconds(p.val), running, clock)
            /\ resp' = Response("set", seconds')
       ELSE rejected
    /\ req' = Request("/set", p)
    /\ UNCHANGED <<marks, sent, phase, clock, running, clients, cancel, sched, hist, wspc>>

set_timer == (\E p \in ValueParams : set_call(p)) /\ UNCHANGED scen

\* ---- broadcast_time
\* the try/except placed around the loop instead of inside it
iteration_error_exits ==
    /\ pc' = "done"
    /\ cur' = NoConn
    /\ todo' = {}
    /\ clients' = clients

\* the except Exception clause of the loop: print, then await asyncio.sleep(1)
iteration_error ==
    /\ pc' = "errsleep"
    /\ cur' = NoConn
    /\ todo' = {}
    /\ clients' = clients

\* One step of `for ws in timer_state.clients` and what follows it up to the
\* next await. The set iterator raises RuntimeError when the set's size is not
\* the size it had when the loop began.
for_next(used, td, disc, gt) ==
    /\ it_used' = used
    /\ disconnected' = disc
    /\ got' = gt
    /\ IF Cardinality(clients) # used
       THEN iteration_error
       ELSE IF td = {}
            THEN /\ clients' = clients \ disc
                 /\ pc' = "sleep"
                 /\ cur' = NoConn
                 /\ todo' = {}
            ELSE \E ws \in td :
                 /\ cur' = ws
                 /\ todo' = td \ {ws}
                 /\ pc' = "send"
                 /\ clients' = clients

\* a send error that is not caught around the send
send_done_propagates(outcome) ==
    IF outcome = "ok"
    THEN for_next(it_used, todo, disconnected, got \cup {cur})
    ELSE /\ it_used' = it_used
         /\ disconnected' = disconnected
         /\ got' = got
         /\ iteration_error

\* a payload built again for each send
send_payload_rebuilt == [seconds |-> seconds, running |-> running]

\* the argument of ws.send_json
send_payload == data

\* the await of ws.send_json(data) returns or raises
send_done(outcome) ==
    IF outcome = "ok"
    THEN for_next(it_used, todo, disconnected, got \cup {cur})
    ELSE for_next(it_used, todo, disconnected \cup {cur}, got)

\* the top of the loop body, up to its first await, when time.time() is now
sched_iterate(now) ==
    /\ phase \in {"serving", "teardown"}
    /\ pc \in {"start", "sleep", "errsleep"}
    /\ cancel # "pending"
    /\ IF running
       THEN LET st == tick(seconds, last_update, now)
            IN  /\ seconds' = st.seconds
                /\ running' = st.running
                /\ last_update' = st.last_update
                /\ do_save(st.seconds, st.running, st.last_update)
       ELSE UNCHANGED <<timer, disk, last_save>>
    /\ data' = [seconds |-> seconds', running |-> running']
    /\ sent' = {}
    /\ stayed' = clients
    /\ churn' = 0
    /\ ticked' = running
    /\ req' = NoReq
    /\ resp' = NoResp
    /\ for_next(Cardinality(clients), clients, {}, {})
    /\ UNCHANGED <<phase, cancel, wspc>>

\* an iteration, counted in beat
SchedIterate == sched_iterate(clock) /\ beat' = 1 - beat /\ UNCHANGED <<clock, scen>>

\* an iteration, not counted
Tick == sched_iterate(clock) /\ UNCHANGED <<clock, beat, scen>>

\* the send in flight ends and the loop goes on to its next await
sched_send_done ==
    /\ phase \in {"serving", "teardown"}
    /\ pc = "send"
    /\ cancel # "pending"
    /\ \E outcome \in {"ok", "raise"} :
        /\ send_done(outcome)
        /\ sent' = IF outcome = "ok" THEN sent \cup {send_payload} ELSE sent
    /\ req' = NoReq
    /\ resp' = NoResp
    /\ UNCHANGED <<marks, last_save, phase, clock, disk, timer, cancel, data, hist, wspc>>

SchedSendDone == sched_send_done /\ UNCHANGED scen

\* CancelledError is thrown into the task at the await it is suspended in
cancelled_in_send ==
    /\ cancel' = "swallowed"
    /\ for_next(it_used, todo, disconnected \cup {cur}, got)

cancelled_in_sleep ==
    /\ cancel' = "break"
    /\ pc' = "done"
    /\ UNCHANGED <<clients, disconnected, cur, it_used, todo, got>>

cancelled_in_errsleep ==
    /\ cancel' = "raised"
    /\ pc' = "done"
    /\ UNCHANGED <<clients, disconnected, cur, it_used, todo, got>>

SchedCancelled ==
    /\ phase = "teardown"
    /\ cancel = "pending"
    /\ \/ pc = "send" /\ cancelled_in_send
       \/ pc = "sleep" /\ cancelled_in_sleep
       \/ pc = "errsleep" /\ cancelled_in_errsleep
    /\ NoCall
    /\ UNCHANGED <<marks, last_save, sent, phase, clock, disk, timer, data, hist, wspc>>

\* ---- lifespan teardown: task.cancel(), then await task
LifespanShutdown ==
    /\ Serving
    /\ phase' = "teardown"
    /\ cancel' = "pending"
    /\ NoCall
    /\ UNCHANGED <<marks, last_save, sent, clock, disk, timer, clients, sched, hist, wspc>>

AwaitTask ==
    /\ phase = "teardown"
    /\ pc = "done"
    /\ phase' = "stopped"
    /\ NoCall
    /\ UNCHANGED <<marks, last_save, sent, clock, disk, timer, clients, cancel, sched, hist, wspc>>

\* ---- websocket_endpoint
\* a connection object the task still holds cannot be a new connection
InUse(c) == c = cur \/ c \in disconnected \/ c \in todo

RegistryChanged ==
    /\ pc = "send" => churn < MaxChurn
    /\ churn' = IF pc = "send" THEN churn + 1 ELSE Max(churn, 1)

\* accept returned: clients.add(ws), then the first send_json is awaited.
\* An add during a pass may rebuild the set's table, so the entries the
\* iterator has still to yield are then any of the set's entries.
WsConnect(c) ==
    /\ Serving
    /\ wspc[c] = "none"
    /\ c \notin clients
    /\ ~InUse(c)
    /\ clients' = clients \cup {c}
    /\ wspc' = [wspc EXCEPT ![c] = "hello"]
    /\ RegistryChanged
    /\ IF pc = "send"
       THEN todo' \in SUBSET (clients \cup {c})
       ELSE todo' = todo
    /\ NoCall
    /\ UNCHANGED <<marks, last_save, sent, phase, clock, disk, timer, cancel, pc, data, disconnected, cur,
                   it_used, got, stayed>>

ws_discard(c) ==
    /\ clients' = clients \ {c}
    /\ todo' = todo \ {c}
    /\ IF c \in clients
       THEN stayed' = stayed \ {c} /\ RegistryChanged
       ELSE UNCHANGED <<stayed, churn>>

\* the first send_json returns, raises WebSocketDisconnect, or raises another
\* error, which ends the handler and leaves ws in the registry
WsHelloDone(c) ==
    /\ phase \in {"serving", "teardown"}
    /\ wspc[c] = "hello"
    /\ \/ /\ wspc' = [wspc EXCEPT ![c] = "recv"]
          /\ UNCHANGED <<clients, todo, hist>>
       \/ /\ wspc' = [wspc EXCEPT ![c] = "none"]
          /\ ws_discard(c)
       \/ /\ wspc' = [wspc EXCEPT ![c] = "none"]
          /\ UNCHANGED <<clients, todo, hist>>
    /\ NoCall
    /\ UNCHANGED <<marks, last_save, sent, phase, clock, disk, timer, cancel, pc, data, disconnected, cur,
                   it_used, got>>

\* receive_text raises WebSocketDisconnect, or raises another error, which
\* ends the handler and leaves ws in the registry
WsDisconnect(c) ==
    /\ phase \in {"serving", "teardown"}
    /\ wspc[c] = "recv"
    /\ wspc' = [wspc EXCEPT ![c] = "none"]
    /\ \/ ws_discard(c)
       \/ UNCHANGED <<clients, todo, hist>>
    /\ NoCall
    /\ UNCHANGED <<marks, last_save, sent, phase, clock, disk, timer, cancel, pc, data, disconnected, cur,
                   it_used, got>>

\* ---- __main__: uvicorn.run has returned or raised and the loop calls it
\* again in the same process. The module is not imported again, so
\* timer_state, with the connections registered in it, is kept, and a new
\* task is created; the handlers of the old server are gone
Rerun ==
    /\ phase \in {"serving", "teardown", "stopped"}
    /\ phase' = "serving"
    /\ pc' = "start"
    /\ cancel' = "none"
    /\ data' = [seconds |-> 0, running |-> FALSE]
    /\ disconnected' = {}
    /\ cur' = NoConn
    /\ it_used' = 0
    /\ todo' = {}
    /\ got' = {}
    /\ sent' = {}
    /\ stayed' = {}
    /\ churn' = 0
    /\ ticked' = FALSE
    /\ wspc' = [c \in Conns |-> "none"]
    /\ NoCall
    /\ UNCHANGED <<beat, last_save, clock, disk, timer, clients>>

\* ---- the host starts a new process: the module is imported again
Restart ==
    /\ phase \in {"serving", "teardown", "stopped"}
    /\ phase' = "import"
    /\ seconds' = 0
    /\ running' = FALSE
    /\ last_update' = clock
    /\ clients' = {}
    /\ pc' = "none"
    /\ cancel' = "none"
    /\ data' = [seconds |-> 0, running |-> FALSE]
    /\ disconnected' = {}
    /\ cur' = NoConn
    /\ it_used' = 0
    /\ todo' = {}
    /\ got' = {}
    /\ stayed' = {}
    /\ churn' = 0
    /\ ticked' = FALSE
    /\ beat' = 0
    /\ wspc' = [c \in Conns |-> "none"]
    /\ req' = NoReq
    /\ resp' = NoResp
    /\ last_save' = "none"
    /\ sent' = {}
    /\ UNCHANGED <<clock, disk, scen>>

\* ---- the timer with its persistence, its clock and the task's tick; no
\* connection ever registers, so each broadcast pass is empty
TimerNext ==
    \/ LoadState
    \/ LifespanStartup
    \/ Advance
    \/ ClockJumpBack
    \/ reset_timer
    \/ start_timer
    \/ pause_timer
    \/ adjust_timer
    \/ set_timer
    \/ Tick
    \/ Rerun
    \/ Restart

TimerSpec == Init /\ [][TimerNext]_vars

\* ---- one run of the process: the task, the registry, the connections and
\* the teardown, with a paused timer and no control call
BroadcastInit == Init /\ disk = Snapshot(MaxSec, FALSE, 0)

BroadcastNext ==
    \/ LoadState
    \/ LifespanStartup
    \/ SchedIterate
    \/ SchedSendDone
    \/ SchedCancelled
    \/ LifespanShutdown
    \/ AwaitTask
    \/ \E c \in Conns : WsConnect(c)
    \/ \E c \in Conns : WsHelloDone(c)
    \/ \E c \in Conns : WsDisconnect(c)
    \/ Rerun

BroadcastSpec == BroadcastInit /\ [][BroadcastNext]_vars

\* the event loop runs every coroutine that is ready to run
SchedStep == SchedIterate \/ SchedSendDone \/ SchedCancelled

FairBroadcastSpec ==
    BroadcastSpec /\ WF_vars(SchedStep) /\ WF_vars(AwaitTask)

\* ---- one run of the process with connections joining, broadcast passes
\* and /reset and /start calls on a timer that was running; the clock
\* stands still
PayloadInit == Init /\ disk = Snapshot(MaxSec, TRUE, 0)

PayloadNext ==
    \/ LoadState
    \/ LifespanStartup
    \/ reset_timer
    \/ start_timer
    \/ SchedIterate
    \/ SchedSendDone
    \/ \E c \in Conns : WsConnect(c)

PayloadSpec == PayloadInit /\ [][PayloadNext]_vars

\* ---- a countdown: a subscriber joins, the timer is set while paused and
\* then started, and no control call follows. asyncio.sleep(1) ends one
\* second after the pass ended, so the iterations are one second apart as
\* long as no time passes during a send. The two calls arrive within the
\* first second, which covers every offset between the start and the task's
\* next wake; the task then wakes at most two seconds after time 0, and
\* MaxSec + 1 iterations after the start end within the horizon
CdStartBy == Res

CdHorizon == CdStartBy + Res * (MaxSec + 1)

CountdownInit == Init /\ disk = NoFile

\* the sleep entered in this step ends one second from now
cd_sleep == cd_wake' = IF pc' \in {"sleep", "errsleep"} THEN clock + Res ELSE cd_wake

\* time passes, but not beyond the end of the task's sleep: the task runs
\* its first slice when the server starts and wakes when its sleep ends
CdAdvance ==
    /\ clock < CdHorizon
    /\ pc # "start"
    /\ pc \in {"sleep", "errsleep"} => clock < cd_wake
    /\ cd_k = 0 - 1 => clock < CdStartBy
    /\ clock' = clock + 1
    /\ cd_k' = IF pc = "send" /\ cd_k >= 0 THEN 0 - 2 ELSE cd_k
    /\ req' = NoReq
    /\ resp' = NoResp
    /\ UNCHANGED <<marks, last_save, sent, phase, disk, timer, clients, cancel, sched,
                   hist, wspc, cd_n, cd_wake, shadow_seconds, shadow_last>>

\* the task's first slice, or asyncio.sleep(1) returning
CdWake ==
    /\ pc = "start" \/ clock = cd_wake
    /\ sched_iterate(clock)
    /\ cd_sleep
    /\ cd_k' = IF cd_k >= 0 THEN cd_k + 1 ELSE cd_k
    /\ UNCHANGED <<clock, beat, cd_n, shadow_seconds, shadow_last>>

\* a send of the pass ends; after the last one the task goes to sleep
CdSendDone ==
    /\ sched_send_done
    /\ cd_sleep
    /\ UNCHANGED <<cd_n, cd_k, shadow_seconds, shadow_last>>

\* the subscriber joins before the timer is set
CdConnect == cd_n < 0 /\ WsConnect(1)

CdSet ==
    /\ cd_k = 0 - 1
    /\ ~running
    /\ \E n \in 0..MaxSec :
        /\ set_call(IntParam(n))
        /\ cd_n' = n
    /\ UNCHANGED <<cd_k, cd_wake, shadow_seconds, shadow_last>>

CdStart ==
    /\ cd_k = 0 - 1
    /\ cd_n >= 0
    /\ ~running
    /\ start_call
    /\ cd_k' = 0
    /\ UNCHANGED <<cd_n, cd_wake, shadow_seconds, shadow_last>>

CountdownNext ==
    \/ LoadState
    \/ LifespanStartup
    \/ CdAdvance
    \/ CdWake
    \/ CdSet
    \/ CdStart
    \/ CdSendDone
    \/ CdConnect
    \/ WsHelloDone(1)

CountdownSpec == CountdownInit /\ [][CountdownNext]_vars

\* ---- a running timer with adjust(0) calls between its ticks, next to the
\* run of the same timer, ticked at the same moments, without those calls
ReferenceInit == Init /\ disk = Snapshot(MaxSec, TRUE, 0)

\* an iteration of the task, in both runs; the first one starts the
\* reference run from the state it leaves
RefWake ==
    /\ sched_iterate(clock)
    /\ IF shadow_last < 0
       THEN /\ shadow_seconds' = seconds'
            /\ shadow_last' = last_update'
       ELSE IF shadow_seconds > 0
            THEN LET st == tick(shadow_seconds, shadow_last, clock)
                 IN  /\ shadow_seconds' = st.seconds
                     /\ shadow_last' = st.last_update
            ELSE UNCHANGED <<shadow_seconds, shadow_last>>
    /\ UNCHANGED <<clock, beat, cd_n, cd_k, cd_wake>>

\* time passes, in both runs
RefAdvance ==
    /\ clock < CdHorizon
    /\ clock' = clock + 1
    /\ NoCall
    /\ UNCHANGED <<marks, last_save, sent, phase, disk, timer, clients, cancel, sched,
                   hist, wspc>>

\* adjust(0), in the run with the calls only
RefAdjust == adjust_call(IntParam(0)) /\ UNCHANGED scen

ReferenceNext ==
    \/ LoadState
    \/ LifespanStartup
    \/ RefAdvance
    \/ RefWake
    \/ RefAdjust

ReferenceSpec == ReferenceInit /\ [][ReferenceNext]_vars

\* ---- the whole program
Next == TimerNext \/ BroadcastNext \/ PayloadNext

Spec == Init /\ [][Next]_vars

\* ======================================================================
\* Properties
\* ======================================================================
WellFormed(file) == file.kind = "json" /\ file.keys = Fields

\* C1: in every reachable state seconds is an integer >= 0
C1_SecondsNonNegative == seconds \in Nat /\ data.seconds \in Nat

\* C1 witness: a tick ran a running timer down to the floor
C1_Witness ==
    /\ phase = "serving"
    /\ ticked
    /\ seconds = 0
    /\ disk = Snapshot(0, FALSE, last_update)
    /\ last_update = MaxTime

\* C2 as claimed: no state between operations has running with seconds = 0
C2_RunningImpliesPositive == running => seconds > 0

\* C3: the payload the task builds right after its tick never has
\* seconds = 0 together with running = true
C3_NoZeroRunningPayload == data.seconds = 0 => ~data.running

\* C3 witness: the iteration ticked a running timer and its payload is {0, false}
C3_Witness ==
    /\ ticked
    /\ pc = "sleep"
    /\ data = [seconds |-> 0, running |-> FALSE]
    /\ disk = Snapshot(0, FALSE, clock)
    /\ clock > 0

\* C4 as claimed: a tick of a running timer never increases seconds
C4_TickNeverIncreases == [][(Tick /\ running) => seconds' <= seconds]_vars

\* C5: load_state on a well-formed snapshot sets last_update to the load
\* time and, for a running snapshot, seconds to max(0, s - floor(elapsed))
\* with elapsed clamped at 0 and running to seconds > 0; a paused snapshot
\* is restored as it is
C5_RestartRecovery ==
    [][(phase = "import" /\ phase' = "loaded" /\ WellFormed(disk)) =>
        LET elapsed == IF clock >= disk.last_update
                       THEN clock - disk.last_update ELSE 0
            whole == elapsed \div Res
            left == IF disk.seconds >= whole THEN disk.seconds - whole ELSE 0
        IN  /\ last_update' = clock
            /\ IF disk.running
               THEN seconds' = left /\ running' = (left > 0)
               ELSE seconds' = disk.seconds /\ running' = FALSE]_vars

\* C5 witness: a running snapshot loaded one second later
C5_Witness ==
    /\ phase = "loaded"
    /\ WellFormed(disk)
    /\ disk.running
    /\ last_update = disk.last_update + Res
    /\ seconds = disk.seconds - 1
    /\ running

\* C6: a missing, unparsable or incomplete file leaves the default state
C6_BadFileGivesDefault ==
    (phase = "loaded" /\ ~WellFormed(disk)) => (seconds = 0 /\ running = FALSE)

\* C6 witness: a file that holds seconds and running but no last_update
C6_Witness ==
    /\ phase = "loaded"
    /\ disk.kind = "json"
    /\ disk.keys = {"seconds", "running"}
    /\ disk.seconds > 0
    /\ seconds = 0

\* C7: a pass over a registry nobody else changes ends normally, has tried
\* every registered connection, has removed exactly those whose send raised
\* and has kept those whose send succeeded
C7_BroadcastIsolation ==
    /\ (pc = "errsleep") => churn > 0
    /\ (pc = "sleep" /\ churn = 0) =>
          /\ got \cup disconnected = stayed
          /\ got \cap disconnected = {}
          /\ clients = stayed \ disconnected
          /\ got \subseteq clients

\* C7 witness: a finished pass in which one send raised and another succeeded
C7_Witness ==
    /\ pc = "sleep"
    /\ churn = 0
    /\ got # {}
    /\ disconnected # {}

\* C8 as claimed: when the registry changes during a pass, the connections
\* registered throughout still get the payload and the failed ones are removed
C8_StableSnapshot ==
    (pc \in {"sleep", "errsleep"} /\ churn > 0) =>
        /\ stayed \subseteq (got \cup disconnected)
        /\ disconnected \cap clients = {}

\* C9 as claimed: once the teardown has cancelled the task, the loop exits
\* and the teardown's wait completes
C9_ShutdownTerminates == (cancel = "pending") ~> (phase = "stopped")

\* C10: while the server runs and no cancellation is requested, the task
\* begins iterations for ever, whatever errors its iterations raise
C10_SchedulerSurvives ==
    <>[](phase = "serving" /\ cancel = "none") => ([]<>(beat = 0) /\ []<>(beat = 1))

\* C10 witness: an iteration error was caught and the loop is in its pause
C10_Witness ==
    /\ phase = "serving"
    /\ cancel = "none"
    /\ pc = "errsleep"
    /\ stayed # {}

\* C11: every operation that changes seconds, running or last_update saves
\* the resulting snapshot before it returns or suspends: once this process
\* has saved, and whenever its latest save succeeded, the file holds the
\* in-memory seconds, running and last_update
C11_SavedAfterMutation ==
    last_save = "ok" => disk = Snapshot(seconds, running, last_update)

\* C11 witness: a tick of a running timer has saved the state it produced
C11_Witness ==
    /\ phase = "serving"
    /\ last_save = "ok"
    /\ ticked
    /\ running
    /\ seconds = MaxSec - 1
    /\ last_update = clock
    /\ disk = Snapshot(MaxSec - 1, TRUE, clock)

\* C12 as claimed: a failing save raises nothing, rolls nothing back, and
\* leaves the file with the content it had
C12_FailedSaveKeepsFile ==
    [][(last_save' = "failed" /\ timer' # timer) =>
        /\ resp' # ClientError
        /\ disk' = disk]_vars

\* C13: a control call answers with the seconds its own mutation produced,
\* an iteration's payload is the state its own tick produced, and every
\* connection served in one pass is sent that same payload, whatever the
\* control handlers and connection handlers do during the pass
C13_MutationAndPayloadAtomic ==
    /\ [](sent \subseteq {data})
    /\ []((resp # NoResp /\ resp # ClientError) => resp.seconds = seconds)
    /\ [][beat' # beat => data' = [seconds |-> seconds', running |-> running']]_vars

\* C13 witness: both connections were served in one pass while a control
\* call changed the state the payload was built from
C13_Witness ==
    /\ pc = "sleep"
    /\ Cardinality(got) = 2
    /\ sent = {data}
    /\ data.seconds # seconds

\* C14: after set(n) on a paused timer and start(), with no further control
\* call and the task waking once a second, the k-th payload after the start
\* carries seconds n-k (or n-k+1 when the first one carried n), one less
\* than the payload before it, with running = (seconds > 0); from the
\* (n+1)-th on it is {0, false} and the timer stays at 0, stopped; and each
\* payload reaches every connection whose send does not fail
C14_CountdownToCompletion ==
    /\ [](cd_k >= 1 =>
            /\ data.seconds \in {Max(0, cd_n - cd_k), Max(0, cd_n - cd_k + 1)}
            /\ data.running = (data.seconds > 0)
            /\ sent \subseteq {data}
            /\ (pc = "sleep" /\ churn = 0) =>
                  (got = stayed \ disconnected /\ (got # {} => sent = {data}))
            /\ cd_k >= cd_n + 1 =>
                  (data = [seconds |-> 0, running |-> FALSE]
                   /\ seconds = 0 /\ ~running))
    /\ [][(cd_k >= 1 /\ cd_k' = cd_k + 1) =>
            data'.seconds = Max(0, data.seconds - 1)]_vars

\* C14 witness: the countdown from MaxSec has delivered {0, false} to a
\* subscriber, one payload after the payload that carried 1
C14_Witness ==
    /\ cd_n = MaxSec
    /\ cd_k = MaxSec + 1
    /\ pc = "sleep"
    /\ got # {}
    /\ sent = {[seconds |-> 0, running |-> FALSE]}

\* C15 as claimed: a request to /adjust or /set whose parameter is missing,
\* is not an integer or, for /set, is negative is answered with a client
\* error and changes neither the timer nor the file
C15_InvalidParamRejected ==
    [][(\/ (req'.path = "/adjust" /\ req'.kind # "int")
        \/ (req'.path = "/set" /\ (req'.kind # "int" \/ req'.val < 0))) =>
            /\ resp' = ClientError
            /\ UNCHANGED <<timer, disk>>]_vars

\* C16: adjust(delta) sets seconds to max(0, seconds + delta), answers
\* {"adjusted", that value} and leaves running as it was
C16_AdjustFloorsAtZero ==
    [][(req'.path = "/adjust" /\ req'.kind = "int") =>
            /\ seconds' = (IF seconds + req'.val > 0 THEN seconds + req'.val ELSE 0)
            /\ resp' = [status |-> "adjusted", seconds |-> seconds']
            /\ running' = running]_vars

\* C16 witness: adjust(-MaxDelta) took a running timer to the floor
C16_Witness ==
    /\ req = Request("/adjust", IntParam(0 - MaxDelta))
    /\ resp = [status |-> "adjusted", seconds |-> 0]
    /\ seconds = 0
    /\ running
    /\ data.seconds = 1

\* C17: set(value) sets seconds to max(0, value) whatever seconds was,
\* answers {"set", that value} and leaves running as it was
C17_SetReplaces ==
    [][(req'.path = "/set" /\ req'.kind = "int") =>
            /\ seconds' = (IF req'.val > 0 THEN req'.val ELSE 0)
            /\ resp' = [status |-> "set", seconds |-> seconds']
            /\ running' = running]_vars

\* C17 witness: set(MaxSec) on a running timer that held another value
C17_Witness ==
    /\ req = Request("/set", IntParam(MaxSec))
    /\ resp = [status |-> "set", seconds |-> MaxSec]
    /\ seconds = MaxSec
    /\ running
    /\ data.seconds = 1

\* C18: reset() leaves seconds = 0 and running = false, answers
\* {"reset", 0}, and the snapshot it writes holds the same values
C18_ResetClears ==
    req.path = "/reset" =>
        /\ seconds = 0
        /\ ~running
        /\ resp = [status |-> "reset", seconds |-> 0]
        /\ last_save = "ok" => disk = Snapshot(0, FALSE, last_update)

\* C18 witness: a reset of a timer that was running with time left, saved
C18_Witness ==
    /\ req.path = "/reset"
    /\ data.running
    /\ data.seconds > 0
    /\ last_save = "ok"
    /\ disk = Snapshot(0, FALSE, clock)
    /\ clock > 0

\* C19: start() never changes seconds and leaves running = true; on a
\* timer that is already running it changes neither last_update nor the
\* file, so a second start() leaves what the first one left
C19_StartIdempotent ==
    [][req'.path = "/start" =>
            /\ seconds' = seconds
            /\ running'
            /\ resp' = [status |-> "started", seconds |-> seconds]
            /\ running => UNCHANGED <<last_update, disk>>]_vars

\* C19 witness: a start() of a timer that has been running for a while
C19_Witness ==
    /\ req.path = "/start"
    /\ running
    /\ seconds > 0
    /\ last_update < clock
    /\ disk = Snapshot(seconds, TRUE, last_update)

\* C20 as claimed: adjust(0) calls made between the ticks of a running
\* timer leave the seconds of every later tick payload what it is in the
\* run without those calls
C20_AdjustZeroLosesNothing == shadow_last >= 0 => data.seconds = shadow_seconds

====
